---- MODULE Spec2Model ----
(***************************************************************************)
(* Model of the devfrnd batch migration engine:                            *)
(*   src/src/devfrnd/db_migration_utils/db_migrator.py  (_migrate)         *)
(*   src/src/devfrnd/router/db_migration_service.py     (migrate command)  *)
(*   src/src/devfrnd/app.py                             (imports)          *)
(*   src/src/devfrnd/flask_helper_utils/app_endpoints_fetcher.py (SIGINT)  *)
(***************************************************************************)
EXTENDS Integers, Sequences, FiniteSets, TLC

(***************************************************************************)
(* Bounds of the model.                                                    *)
(***************************************************************************)
MaxDocs == 2      \* documents per source collection
MaxBatch == 2     \* largest batch size tried
MaxPlanN == 25    \* largest estimated count tried on the planner alone
MaxFaults == 1    \* driver calls that fail in one run
MaxCalls == 2     \* calls of _migrate in one process

(***************************************************************************)
(* math.ceil(total_docs * (percentage / 100.0))   (db_migrator.py:114)     *)
(* Python floats are IEEE-754 binary64.  A positive float is modelled as   *)
(* [m, e]: m its significand, a sequence of bits, most significant first,  *)
(* and e the exponent of the last bit: the value is Nat(m) * 2^e.          *)
(***************************************************************************)
MantissaBits == 53
PercentDivisor == 100

RECURSIVE Pow2(_)
Pow2(n) == IF n = 0 THEN 1 ELSE 2 * Pow2(n - 1)

\* The natural number a bit sequence writes.
BitsToNat(b) ==
  LET f[i \in 0..Len(b)] == IF i = 0 THEN 0 ELSE 2 * f[i - 1] + b[i]
  IN f[Len(b)]

\* The bits of a natural number, without leading zeros.
RECURSIVE NatToBits(_)
NatToBits(n) == IF n = 0 THEN <<>> ELSE Append(NatToBits(n \div 2), n % 2)

AnyBit(b, from, to) == \E i \in from..to : b[i] = 1

\* b + 1 on a bit sequence; all ones carries into a longer sequence.
IncBits(b) ==
  IF \A i \in 1..Len(b) : b[i] = 1
  THEN [i \in 1..(Len(b) + 1) |-> IF i = 1 THEN 1 ELSE 0]
  ELSE LET z == CHOOSE i \in 1..Len(b) :
                  b[i] = 0 /\ \A j \in (i + 1)..Len(b) : b[j] = 1
       IN [i \in 1..Len(b) |-> IF i < z THEN b[i] ELSE IF i = z THEN 1 ELSE 0]

\* Round a positive value Nat(b) * 2^e, with `more` saying that nonzero bits
\* lie below b, to MantissaBits bits, ties to even.
RoundNearestEven(b, e, more) ==
  IF Len(b) <= MantissaBits THEN [m |-> b, e |-> e]
  ELSE LET s == Len(b) - MantissaBits
           sticky == more \/ AnyBit(b, MantissaBits + 2, Len(b))
           up == b[MantissaBits + 1] = 1 /\ (sticky \/ b[MantissaBits] = 1)
       IN IF ~up THEN [m |-> SubSeq(b, 1, MantissaBits), e |-> e + s]
          ELSE CHOOSE x \in
                 { IF Len(r) > MantissaBits
                   THEN [m |-> SubSeq(r, 1, MantissaBits), e |-> e + s + 1]
                   ELSE [m |-> r, e |-> e + s] :
                   r \in { IncBits(k) : k \in {SubSeq(b, 1, MantissaBits)} } } : TRUE

\* Long division of r0 / d (d <= r0 < 2 * d): the running remainder before
\* quotient bit j is taken, and the first n quotient bits.
DivRem(r0, d, j) ==
  LET f[i \in 0..j] == IF i = 0 THEN r0 ELSE 2 * (f[i - 1] % d)
  IN f[j]

QuotBits(r0, d, n) == [j \in 1..n |-> DivRem(r0, d, j - 1) \div d]

\* The least t with a * 2^t >= d, for 1 <= a <= d.
RECURSIVE NormShift(_, _)
NormShift(a, d) == IF a >= d THEN 0 ELSE 1 + NormShift(2 * a, d)

\* float(a) / float(d) for integers 1 <= a <= d, correctly rounded.
FloatDiv(a, d) ==
  CHOOSE x \in
    { RoundNearestEven(QuotBits(r0, d, MantissaBits + 1),
                       -(NormShift(a, d) + MantissaBits),
                       DivRem(r0, d, MantissaBits + 1) # 0) :
      r0 \in {a * Pow2(NormShift(a, d))} } : TRUE

\* b * n for a bit sequence b and a natural n, exactly (most significant
\* bit first; carry[i] is the carry out of the i lowest bits).
MulBits(b, n) ==
  LET L == Len(b)
      carry[i \in 0..L] ==
        IF i = 0 THEN 0 ELSE (b[L - i + 1] * n + carry[i - 1]) \div 2
  IN NatToBits(carry[L])
     \o [i \in 1..L |-> (b[i] * n + carry[L - i]) % 2]

\* float(n) * x for an integer n >= 1 and a positive float x, rounded.
FloatMulInt(n, x) ==
  CHOOSE y \in
    { RoundNearestEven(pb, x.e, FALSE) : pb \in { MulBits(xm, n) : xm \in {x.m} } } : TRUE

\* math.ceil of a positive float.
FloatCeil(x) ==
  IF x.e >= 0 THEN BitsToNat(x.m) * Pow2(x.e)
  ELSE LET k == -x.e
           L == Len(x.m)
       IN IF k >= L THEN 1
          ELSE BitsToNat(SubSeq(x.m, 1, L - k))
               + (IF AnyBit(x.m, L - k + 1, L) THEN 1 ELSE 0)

\* num_to_migrate = math.ceil(total_docs * (percentage / 100.0))
NumToMigrate(total_docs, percentage) ==
  IF total_docs = 0 THEN 0
  ELSE CHOOSE r \in
         { FloatCeil(y) :
           y \in { FloatMulInt(total_docs, x) :
                   x \in {FloatDiv(percentage, PercentDivisor)} } } : TRUE

\* The exact integer ceiling of n * p / 100.
ExactCeil(n, p) == (n * p + PercentDivisor - 1) \div PercentDivisor

(***************************************************************************)
(* The state.                                                              *)
(***************************************************************************)
VARIABLES
  host,                        \* "app": app.py imports both commands; "service": only db_migration_service is imported
  pc,                          \* position of the process
  sigint_handler,              \* module whose handle_sigint is installed for SIGINT
  db_migrator_stop,            \* db_migrator._stop
  app_endpoints_fetcher_stop,  \* app_endpoints_fetcher._stop
  percentage, batch_size,      \* the command's options
  source,                      \* source database: [names, count]; a collection's documents are 1..count in cursor order
  target_init,                 \* target database before the run: [colls, docs]
  target_colls, target_docs,   \* target database: existing collections, the _ids each holds
  source_client, target_client,
  collections, coll_i,         \* the list being iterated and the index of coll_name in it
  total_docs, num_to_migrate, migrated_count,
  cursor,                      \* [state, pos]: state "none" | "open" | "closed", pos documents yielded
  docs, fill_i,                \* the batch being filled, and the index of range(batch_size)
  overall, log, exit_status,   \* overall progress, messages logged, status of sys.exit
  ops,                         \* history: the driver operations issued so far, <<operation, collection or client>>
  submitted,                   \* history: per collection, the documents passed to insert_many, in order
  last_insert,                 \* history: the last insert_many call: [outcome, rejected]
  inserts_after_stop,          \* history: insert_many calls issued after db_migrator._stop became set
  dup_at, write_err_at,        \* history: per collection, Len(submitted) after the first insert that reported a duplicate key / failed otherwise (0: none)
  interrupted,                 \* history: a SIGINT was delivered during the run
  coll_at_stop,                \* history: coll_i when db_migrator._stop became set
  faults,                      \* history: driver calls that failed or answered unexpectedly so far
  empty_seen, empty_done,      \* history: collections that took the total_docs == 0 branch, and that left it at line 111
  calls                        \* calls of _migrate made in this process so far

env == <<host, percentage, batch_size, source, target_init, calls>>
sig == <<sigint_handler, db_migrator_stop, app_endpoints_fetcher_stop, interrupted, coll_at_stop>>
tgt == <<target_colls, target_docs>>
clients == <<source_client, target_client>>
loop == <<collections, coll_i, total_docs, num_to_migrate, migrated_count>>
batch == <<cursor, docs, fill_i>>
out == <<overall, log, exit_status>>
hist == <<ops, submitted, last_insert, inserts_after_stop, dup_at, write_err_at, empty_seen, empty_done>>
ins == <<submitted, last_insert, inserts_after_stop, dup_at, write_err_at>>
vars == <<env, pc, sig, tgt, clients, loop, batch, out, hist, faults>>

CollNames == {"c1", "c2", "users", "empty"}
NoCursor == [state |-> "none", pos |-> 0]
NoInsert == [outcome |-> "none", rejected |-> {}]

\* The elements of a sequence.
Range(s) == {s[i] : i \in 1..Len(s)}

Min(a, b) == IF a <= b THEN a ELSE b

(***************************************************************************)
(* Requests and databases tried.                                           *)
(***************************************************************************)
Hosts == {"app", "service"}
Percentages == {0, 50, 100, 101}
BatchSizes == (-1)..MaxBatch

Counts(f) == [n \in CollNames |-> IF n \in DOMAIN f THEN f[n] ELSE 0]

\* Document counts tried for the second collection of a database.
SecondCounts == {0, 1}

SourceDBs ==
  {[names |-> <<>>, count |-> Counts(<<>>)]}
  \cup {[names |-> <<"c1">>, count |-> Counts([c1 |-> a])] : a \in 0..MaxDocs}
  \cup {[names |-> <<"c1", "c2">>, count |-> Counts([c1 |-> a, c2 |-> b])] :
          a \in 0..MaxDocs, b \in SecondCounts}

NoDocs == [n \in CollNames |-> {}]

TargetDBs ==
  { [colls |-> {}, docs |-> NoDocs],
    [colls |-> {"c1"}, docs |-> [NoDocs EXCEPT !["c1"] = {1}]] }

\* The _id of a document that an earlier run copied and that the source no
\* longer holds (the source's documents are 1..count).
OtherDoc == 0

\* Targets a second run finds: what an earlier run of the command left.
RerunTargets ==
  { [colls |-> {"c1"}, docs |-> [NoDocs EXCEPT !["c1"] = {OtherDoc}]] }
  \cup { [colls |-> {"c1"}, docs |-> [NoDocs EXCEPT !["c1"] = 1..k]] : k \in 1..MaxDocs }

\* The end-to-end scenario of the specification, section 8.
ScenarioSource ==
  [names |-> <<"users", "empty">>, count |-> Counts([users |-> 100, empty |-> 0])]

InitWith(hs, ps, bs, ss, ts) ==
  /\ host \in hs
  /\ percentage \in ps
  /\ batch_size \in bs
  /\ source \in ss
  /\ target_init \in ts
  /\ target_colls = target_init.colls
  /\ target_docs = target_init.docs
  /\ pc = "start"
  /\ sigint_handler = "default"
  /\ db_migrator_stop = FALSE
  /\ app_endpoints_fetcher_stop = FALSE
  /\ source_client = "none"
  /\ target_client = "none"
  /\ collections = <<>>
  /\ coll_i = 0
  /\ total_docs = 0
  /\ num_to_migrate = 0
  /\ migrated_count = 0
  /\ cursor = NoCursor
  /\ docs = <<>>
  /\ fill_i = 0
  /\ overall = 0
  /\ log = {}
  /\ exit_status = -1
  /\ ops = {}
  /\ faults = 0
  /\ submitted = [n \in CollNames |-> <<>>]
  /\ last_insert = NoInsert
  /\ inserts_after_stop = 0
  /\ dup_at = [n \in CollNames |-> 0]
  /\ write_err_at = [n \in CollNames |-> 0]
  /\ interrupted = FALSE
  /\ coll_at_stop = 0
  /\ empty_seen = {}
  /\ empty_done = {}
  /\ calls = 1

Init == InitWith(Hosts, Percentages, BatchSizes, SourceDBs, TargetDBs)

\* One more driver call fails.
Faulty == faults < MaxFaults /\ faults' = faults + 1

(***************************************************************************)
(* Imports (app.py:2-3) and the interrupt handlers.                        *)
(***************************************************************************)
\* Positions inside _migrate, where the process runs a migration.
Running == pc \notin {"start", "import_fetcher", "cli", "returned", "exited"}

\* import db_migration_service -> db_migrator: _stop = False (line 21) and
\* signal.signal(SIGINT, handle_sigint) (line 30).
ImportDbMigrator ==
  /\ pc = "start"
  /\ UNCHANGED faults
  /\ sigint_handler' = "db_migrator"
  /\ db_migrator_stop' = FALSE
  /\ pc' = IF host = "app" THEN "import_fetcher" ELSE "cli"
  /\ UNCHANGED <<env, app_endpoints_fetcher_stop, interrupted, coll_at_stop,
                 tgt, clients, loop, batch, out, hist>>

\* import flask_helper_service -> app_endpoints_fetcher: its own _stop = False
\* (line 20) and signal.signal(SIGINT, handle_sigint) (line 28), which
\* replaces the handler installed before.
ImportAppEndpointsFetcher ==
  /\ pc = "import_fetcher"
  /\ UNCHANGED faults
  /\ sigint_handler' = "app_endpoints_fetcher"
  /\ app_endpoints_fetcher_stop' = FALSE
  /\ pc' = "cli"
  /\ UNCHANGED <<env, db_migrator_stop, interrupted, coll_at_stop,
                 tgt, clients, loop, batch, out, hist>>

\* db_migrator.handle_sigint
MigratorHandleSigint ==
  /\ db_migrator_stop' = TRUE
  /\ coll_at_stop' = IF db_migrator_stop THEN coll_at_stop ELSE coll_i
  /\ log' = log \cup {"interrupted"}
  /\ UNCHANGED app_endpoints_fetcher_stop

\* app_endpoints_fetcher.handle_sigint
FetcherHandleSigint ==
  /\ app_endpoints_fetcher_stop' = TRUE
  /\ log' = log \cup {"interrupted"}
  /\ UNCHANGED <<db_migrator_stop, coll_at_stop>>

\* A SIGINT delivered while the migration runs: Python calls the handler
\* that signal.signal installed last.
Sigint ==
  /\ Running
  /\ UNCHANGED faults
  /\ interrupted' = TRUE
  /\ IF sigint_handler = "db_migrator"
     THEN MigratorHandleSigint
     ELSE FetcherHandleSigint
  /\ UNCHANGED <<env, pc, sigint_handler, tgt, clients, loop, batch,
                 overall, exit_status, hist>>

(***************************************************************************)
(* The migrate command (db_migration_service.py:21-58).                    *)
(***************************************************************************)
ValidRequest == 1 <= percentage /\ percentage <= 100

\* Lines 32-50: the percentage check, then the call of _migrate.
Migrate ==
  /\ pc = "cli"
  /\ UNCHANGED faults
  /\ IF ValidRequest
     THEN /\ pc' = "connect_source"
          /\ UNCHANGED <<log, exit_status>>
     ELSE /\ pc' = "exited"
          /\ log' = log \cup {"percentage_error"}
          /\ exit_status' = 1
  /\ UNCHANGED <<env, sig, tgt, clients, loop, batch, overall, hist>>

\* Lines 51: _migrate returned without raising.
MigrateReturned ==
  /\ pc = "returned"
  /\ UNCHANGED faults
  /\ pc' = "exited"
  /\ log' = log \cup {"completed_successfully"}
  /\ exit_status' = 0
  /\ UNCHANGED <<env, sig, tgt, clients, loop, batch, overall, hist>>

(***************************************************************************)
(* _migrate (db_migrator.py:39-185).                                       *)
(***************************************************************************)
\* What an exception raised at lines 48-51 leads to: the handler of line 52
\* for a driver error, the handler of line 180 for any other; both go on to
\* the finally block.
ConnErrors == {"conn_error", "failed"}

\* Line 48: source_client = MongoClient(source_uri)
ConnectSource_ok ==
  /\ pc = "connect_source"
  /\ UNCHANGED faults
  /\ source_client' = "open"
  /\ ops' = ops \cup {<<"connect", "source">>}
  /\ pc' = "connect_target"
  /\ UNCHANGED <<env, sig, tgt, target_client, loop, batch, out,
                 ins, empty_seen, empty_done>>

ConnectSource_fail ==
  /\ pc = "connect_source"
  /\ Faulty
  /\ \E m \in ConnErrors : log' = log \cup {m}
  /\ ops' = ops \cup {<<"connect", "source">>}
  /\ pc' = "close_source"
  /\ UNCHANGED <<env, sig, tgt, clients, loop, batch, overall, exit_status,
                 ins, empty_seen, empty_done>>

\* Line 49: target_client = MongoClient(target_uri)
ConnectTarget_ok ==
  /\ pc = "connect_target"
  /\ UNCHANGED faults
  /\ target_client' = "open"
  /\ ops' = ops \cup {<<"connect", "target">>}
  /\ pc' = "ping_source"
  /\ UNCHANGED <<env, sig, tgt, source_client, loop, batch, out,
                 ins, empty_seen, empty_done>>

ConnectTarget_fail ==
  /\ pc = "connect_target"
  /\ Faulty
  /\ \E m \in ConnErrors : log' = log \cup {m}
  /\ ops' = ops \cup {<<"connect", "target">>}
  /\ pc' = "close_source"
  /\ UNCHANGED <<env, sig, tgt, clients, loop, batch, overall, exit_status,
                 ins, empty_seen, empty_done>>

\* Lines 50-51: the two pings.
Ping_ok ==
  /\ pc \in {"ping_source", "ping_target"}
  /\ UNCHANGED faults
  /\ ops' = ops \cup {<<"ping", IF pc = "ping_source" THEN "source" ELSE "target">>}
  /\ pc' = IF pc = "ping_source" THEN "ping_target" ELSE "access_db"
  /\ UNCHANGED <<env, sig, tgt, clients, loop, batch, out,
                 ins, empty_seen, empty_done>>

Ping_fail ==
  /\ pc \in {"ping_source", "ping_target"}
  /\ Faulty
  /\ \E m \in ConnErrors : log' = log \cup {m}
  /\ ops' = ops \cup {<<"ping", IF pc = "ping_source" THEN "source" ELSE "target">>}
  /\ pc' = "close_source"
  /\ UNCHANGED <<env, sig, tgt, clients, loop, batch, overall, exit_status,
                 ins, empty_seen, empty_done>>

\* Lines 56-63: source_client[db_name], target_client[db_name].
AccessDb_ok ==
  /\ pc = "access_db"
  /\ UNCHANGED faults
  /\ pc' = "list_collections"
  /\ UNCHANGED <<env, sig, tgt, clients, loop, batch, out, hist>>

AccessDb_fail ==
  /\ pc = "access_db"
  /\ Faulty
  /\ log' = log \cup {"db_error"}
  /\ pc' = "close_source"
  /\ UNCHANGED <<env, sig, tgt, clients, loop, batch, overall, exit_status, hist>>

\* A listing that does not check for the empty list.
ListCollections_ok_NoCheck ==
  /\ pc = "list_collections"
  /\ UNCHANGED faults
  /\ collections' = source.names
  /\ ops' = ops \cup {<<"list_collection_names", "source">>}
  /\ pc' = "for"
  /\ UNCHANGED <<env, sig, tgt, clients, coll_i, total_docs, num_to_migrate,
                 migrated_count, batch, out, ins, empty_seen, empty_done>>

\* Lines 65-83: list_collection_names(); an empty list ends the run with a
\* warning; otherwise the overall task is created.
ListCollections_ok ==
  /\ pc = "list_collections"
  /\ UNCHANGED faults
  /\ collections' = source.names
  /\ ops' = ops \cup {<<"list_collection_names", "source">>}
  /\ IF source.names = <<>>
     THEN log' = log \cup {"no_collections"} /\ pc' = "close_source"
     ELSE log' = log /\ pc' = "for"
  /\ UNCHANGED <<env, sig, tgt, clients, coll_i, total_docs, num_to_migrate,
                 migrated_count, batch, overall, exit_status,
                 ins, empty_seen, empty_done>>

\* A failed listing after which the run goes on with the collections.
ListCollections_fail_Continues ==
  /\ pc = "list_collections"
  /\ Faulty
  /\ log' = log \cup {"list_error"}
  /\ collections' = source.names
  /\ ops' = ops \cup {<<"list_collection_names", "source">>}
  /\ pc' = "for"
  /\ UNCHANGED <<env, sig, tgt, clients, coll_i, total_docs, num_to_migrate,
                 migrated_count, batch, overall, exit_status,
                 ins, empty_seen, empty_done>>

ListCollections_fail ==
  /\ pc = "list_collections"
  /\ Faulty
  /\ log' = log \cup {"list_error"}
  /\ ops' = ops \cup {<<"list_collection_names", "source">>}
  /\ pc' = "close_source"
  /\ UNCHANGED <<env, sig, tgt, clients, loop, batch, overall, exit_status,
                 ins, empty_seen, empty_done>>

coll_name == collections[coll_i]

\* Lines 85-87: the next collection of the list, unless the flag is set.
For ==
  /\ pc = "for"
  /\ UNCHANGED faults
  /\ IF coll_i = Len(collections)
     THEN coll_i' = coll_i /\ pc' = "epilogue"
     ELSE /\ coll_i' = coll_i + 1
          /\ pc' = IF db_migrator_stop THEN "epilogue" ELSE "access_coll"
  /\ UNCHANGED <<env, sig, tgt, clients, collections, total_docs, num_to_migrate,
                 migrated_count, batch, out, hist>>

\* Lines 89-95: source_db[coll_name], target_db[coll_name].
AccessColl_ok ==
  /\ pc = "access_coll"
  /\ UNCHANGED faults
  /\ pc' = "count"
  /\ UNCHANGED <<env, sig, tgt, clients, loop, batch, out, hist>>

AccessColl_fail ==
  /\ pc = "access_coll"
  /\ Faulty
  /\ overall' = overall + 1
  /\ pc' = "for"
  /\ UNCHANGED <<env, sig, tgt, clients, loop, batch, log, exit_status, hist>>

\* Lines 104 and 114-118, with total_docs the count just estimated.
Planned(n) ==
  /\ total_docs' = n
  /\ IF n = 0
     THEN /\ empty_seen' = empty_seen \cup {coll_name}
          /\ pc' = "empty_list"
          /\ UNCHANGED <<num_to_migrate, migrated_count>>
     ELSE /\ num_to_migrate' = NumToMigrate(n, percentage)
          /\ migrated_count' = 0
          /\ pc' = "find"
          /\ UNCHANGED empty_seen

\* Line 98: estimated_document_count() returns the collection's count.
Count_ok ==
  /\ pc = "count"
  /\ UNCHANGED faults
  /\ Planned(source.count[coll_name])
  /\ ops' = ops \cup {<<"estimated_document_count", coll_name>>}
  /\ UNCHANGED <<env, sig, tgt, clients, collections, coll_i, batch, out,
                 ins, empty_done>>

\* Line 98: the estimate comes from metadata and may differ from the
\* documents a cursor yields.
Count_stale ==
  /\ pc = "count"
  /\ Faulty
  /\ \E n \in 0..MaxDocs : n # source.count[coll_name] /\ Planned(n)
  /\ ops' = ops \cup {<<"estimated_document_count", coll_name>>}
  /\ UNCHANGED <<env, sig, tgt, clients, collections, coll_i, batch, out,
                 ins, empty_done>>

\* Lines 99-102.
Count_fail ==
  /\ pc = "count"
  /\ Faulty
  /\ ops' = ops \cup {<<"estimated_document_count", coll_name>>}
  /\ overall' = overall + 1
  /\ pc' = "for"
  /\ UNCHANGED <<env, sig, tgt, clients, loop, batch, log, exit_status,
                 ins, empty_seen, empty_done>>

\* The TypeError of line 110 leaving _migrate, past the handler of line 180
\* and the finally block.
EmptyBranchRaised_Escapes ==
  /\ log' = log \cup {"migrate_raised"}
  /\ pc' = "exited"
  /\ UNCHANGED <<overall, empty_done>>

\* Lines 109-110: the handler calls logger.log_to_file(message) without the
\* level argument log_to_file(self, level, message) requires; the TypeError
\* leaves the loop and is caught at line 180.
EmptyBranchRaised ==
  /\ log' = log \cup {"failed"}
  /\ pc' = "close_source"
  /\ UNCHANGED <<overall, empty_done>>

\* Lines 111-112.
EmptyBranchDone ==
  /\ overall' = overall + 1
  /\ empty_done' = empty_done \cup {coll_name}
  /\ pc' = "for"
  /\ UNCHANGED log

\* Line 106: target_db.list_collection_names()
EmptyList_ok ==
  /\ pc = "empty_list"
  /\ UNCHANGED faults
  /\ ops' = ops \cup {<<"list_collection_names", "target">>}
  /\ IF coll_name \in target_colls
     THEN EmptyBranchDone
     ELSE pc' = "empty_create" /\ UNCHANGED <<overall, log, empty_done>>
  /\ UNCHANGED <<env, sig, tgt, clients, loop, batch, exit_status,
                 ins, empty_seen>>

EmptyList_fail ==
  /\ pc = "empty_list"
  /\ Faulty
  /\ ops' = ops \cup {<<"list_collection_names", "target">>}
  /\ EmptyBranchRaised
  /\ UNCHANGED <<env, sig, tgt, clients, loop, batch, exit_status,
                 ins, empty_seen>>

\* A create_collection that creates nothing.
CreateCollection_Nothing(colls, name) == colls

\* Line 107: target_db.create_collection(coll_name)
CreateCollection(colls, name) == colls \cup {name}

EmptyCreate_ok ==
  /\ pc = "empty_create"
  /\ UNCHANGED faults
  /\ ops' = ops \cup {<<"create_collection", coll_name>>}
  /\ target_colls' = CreateCollection(target_colls, coll_name)
  /\ EmptyBranchDone
  /\ UNCHANGED <<env, sig, target_docs, clients, loop, batch, exit_status,
                 ins, empty_seen>>

EmptyCreate_fail ==
  /\ pc = "empty_create"
  /\ Faulty
  /\ ops' = ops \cup {<<"create_collection", coll_name>>}
  /\ EmptyBranchRaised
  /\ UNCHANGED <<env, sig, tgt, clients, loop, batch, exit_status,
                 ins, empty_seen>>

\* Line 121: find({}, no_cursor_timeout=True).batch_size(batch_size).
\* pymongo's Cursor.batch_size raises ValueError for a negative size.
Find_ok ==
  /\ pc = "find"
  /\ UNCHANGED faults
  /\ batch_size >= 0
  /\ ops' = ops \cup {<<"find", coll_name>>}
  /\ cursor' = [state |-> "open", pos |-> 0]
  /\ pc' = "while"
  /\ UNCHANGED <<env, sig, tgt, clients, loop, docs, fill_i, out,
                 ins, empty_seen, empty_done>>

\* A cursor error that ends the run instead of the collection.
FindRaised_Aborts ==
  /\ ops' = ops \cup {<<"find", coll_name>>}
  /\ log' = log \cup {"failed"}
  /\ pc' = "close_source"
  /\ UNCHANGED <<env, sig, tgt, clients, loop, batch, overall, exit_status,
                 ins, empty_seen, empty_done>>

\* Lines 122-125: the handler of any exception of line 121.
FindRaised ==
  /\ ops' = ops \cup {<<"find", coll_name>>}
  /\ overall' = overall + 1
  /\ pc' = "for"
  /\ UNCHANGED <<env, sig, tgt, clients, loop, batch, log, exit_status,
                 ins, empty_seen, empty_done>>

\* Line 121 with a negative batch size: ValueError.
Find_invalid ==
  /\ pc = "find"
  /\ UNCHANGED faults
  /\ batch_size < 0
  /\ FindRaised

\* Line 121 fails in the driver.
Find_fail ==
  /\ pc = "find"
  /\ Faulty
  /\ FindRaised

\* The batch loop without its poll of the flag.
WhileCondition_NoStop == migrated_count < num_to_migrate

\* Line 128: while migrated_count < num_to_migrate and not _stop
WhileCondition == migrated_count < num_to_migrate /\ ~db_migrator_stop

\* A batch loop that does not start each batch empty.
While_KeepsBatch ==
  /\ pc = "while"
  /\ UNCHANGED faults
  /\ IF WhileCondition
     THEN docs' = docs /\ fill_i' = 0 /\ pc' = "fill"
     ELSE pc' = "cursor_close" /\ UNCHANGED <<docs, fill_i>>
  /\ UNCHANGED <<env, sig, tgt, clients, loop, cursor, out, hist>>

\* Lines 128-129: the batch loop's condition.
While ==
  /\ pc = "while"
  /\ UNCHANGED faults
  /\ IF WhileCondition
     THEN docs' = <<>> /\ fill_i' = 0 /\ pc' = "fill"
     ELSE pc' = "cursor_close" /\ UNCHANGED <<docs, fill_i>>
  /\ UNCHANGED <<env, sig, tgt, clients, loop, cursor, out, hist>>

\* A limit check that counts the documents of the batch being filled.
BatchLimitReached_Running == migrated_count + Len(docs) >= num_to_migrate

\* Line 132: the limit check inside range(batch_size).
BatchLimitReached == migrated_count >= num_to_migrate

\* Whether the loop of line 131 goes on to next(cursor).
Filling == fill_i < batch_size /\ ~BatchLimitReached

\* A batch loop that submits whatever the fill produced.
AfterFill_Always == "insert"

\* Lines 145-146: an empty batch leaves the batch loop.
AfterFill == IF docs = <<>> THEN "cursor_close" ELSE "insert"

\* Lines 131-133, 145: range(batch_size) is exhausted, or the limit check
\* of line 132 breaks.
FillDone ==
  /\ pc = "fill"
  /\ UNCHANGED faults
  /\ ~Filling
  /\ pc' = AfterFill
  /\ UNCHANGED <<env, sig, tgt, clients, loop, batch, out, hist>>

\* Line 135: next(cursor) yields the next document.
Fetch_doc ==
  /\ pc = "fill"
  /\ UNCHANGED faults
  /\ Filling
  /\ cursor.pos < source.count[coll_name]
  /\ ops' = ops \cup {<<"next", coll_name>>}
  /\ docs' = Append(docs, cursor.pos + 1)
  /\ cursor' = [cursor EXCEPT !.pos = @ + 1]
  /\ fill_i' = fill_i + 1
  /\ UNCHANGED <<env, pc, sig, tgt, clients, loop, out,
                 ins, empty_seen, empty_done>>

\* Lines 136-138: StopIteration is passed over and range() goes on.
Fetch_exhausted ==
  /\ pc = "fill"
  /\ UNCHANGED faults
  /\ Filling
  /\ cursor.pos >= source.count[coll_name]
  /\ ops' = ops \cup {<<"next", coll_name>>}
  /\ fill_i' = fill_i + 1
  /\ UNCHANGED <<env, pc, sig, tgt, clients, loop, cursor, docs, out,
                 ins, empty_seen, empty_done>>

\* Lines 139-141, 145: any other exception of next(cursor) breaks the fill.
Fetch_fail ==
  /\ pc = "fill"
  /\ Faulty
  /\ Filling
  /\ ops' = ops \cup {<<"next", coll_name>>}
  /\ pc' = AfterFill
  /\ UNCHANGED <<env, sig, tgt, clients, loop, batch, out,
                 ins, empty_seen, empty_done>>

(***************************************************************************)
(* Lines 148-165: target_coll.insert_many(docs, ordered=False).            *)
(***************************************************************************)
\* The documents an ordered insert writes: it stops at the first document
\* the server refuses.
InsertManyOrdered(existing, b, rejected) ==
  {b[i] : i \in {k \in 1..Len(b) : \A j \in 1..k : b[j] \notin existing \cup rejected}}

\* The documents an unordered insert writes: every document of the batch
\* whose _id the collection does not hold (error 11000) and that the server
\* does not refuse for another reason.
InsertManyUnordered(existing, b, rejected) ==
  {b[i] : i \in {k \in 1..Len(b) : b[k] \notin existing \cup rejected}}

\* Documents of the batch the server may refuse for a reason other than a
\* duplicate key: one of them.
RejectChoices(nondups) == {{d} : d \in nondups}

\* The history of one insert_many call.
Inserted(rejected, outcome) ==
  /\ ops' = ops \cup {<<"insert_many", coll_name>>}
  /\ submitted' = [submitted EXCEPT ![coll_name] = @ \o docs]
  /\ last_insert' = [outcome |-> outcome, rejected |-> rejected]
  /\ inserts_after_stop' = inserts_after_stop + (IF db_migrator_stop THEN 1 ELSE 0)
  /\ dup_at' = IF dup_at[coll_name] = 0 /\ Range(docs) \cap target_docs[coll_name] # {}
                  /\ outcome = "bulk_write_error"
               THEN [dup_at EXCEPT ![coll_name] = Len(submitted[coll_name]) + Len(docs)]
               ELSE dup_at
  /\ write_err_at' = IF write_err_at[coll_name] = 0
                        /\ (rejected # {} \/ outcome \in {"pymongo_error", "exception"})
                     THEN [write_err_at EXCEPT ![coll_name] = Len(submitted[coll_name]) + Len(docs)]
                     ELSE write_err_at

\* An insert that replaces the collection's documents by the batch's.
Written_Replaces(written) ==
  /\ target_docs' = [target_docs EXCEPT ![coll_name] = written]
  /\ target_colls' = target_colls \cup {coll_name}

\* The target after insert_many wrote `written` (a write creates the
\* collection when it does not exist).
Written(written) ==
  /\ target_docs' = [target_docs EXCEPT ![coll_name] = @ \cup written]
  /\ target_colls' = IF written = {} THEN target_colls
                     ELSE target_colls \cup {coll_name}

\* A batch loop that does not count the batch.
BatchCounted_Nothing ==
  /\ migrated_count' = migrated_count
  /\ pc' = "while"

\* A count of the documents the batch added to the target.
BatchCounted_Stored ==
  /\ migrated_count' = migrated_count + Cardinality(Range(docs) \ target_docs[coll_name])
  /\ pc' = "while"

\* Lines 164-165, and back to line 128.
BatchCounted ==
  /\ migrated_count' = migrated_count + Len(docs)
  /\ pc' = "while"

\* Line 149 returns: no document of the batch was refused.
Insert_ok ==
  /\ pc = "insert"
  /\ UNCHANGED faults
  /\ Range(docs) \cap target_docs[coll_name] = {}
  /\ Inserted({}, "ok")
  /\ Written(InsertManyUnordered(target_docs[coll_name], docs, {}))
  /\ BatchCounted
  /\ UNCHANGED <<env, sig, clients, collections, coll_i, total_docs, num_to_migrate,
                 batch, out, empty_seen, empty_done>>

\* Lines 150-156: BulkWriteError whose write errors are all duplicate keys
\* (code 11000): a warning for each, and the loop goes on.
Insert_duplicates ==
  /\ pc = "insert"
  /\ UNCHANGED faults
  /\ Range(docs) \cap target_docs[coll_name] # {}
  /\ Inserted({}, "bulk_write_error")
  /\ Written(InsertManyUnordered(target_docs[coll_name], docs, {}))
  /\ BatchCounted
  /\ UNCHANGED <<env, sig, clients, collections, coll_i, total_docs, num_to_migrate,
                 batch, out, empty_seen, empty_done>>

\* Lines 150-156: BulkWriteError with a write error of another code: an
\* error is logged for it, and the loop goes on as well.
Insert_bulk_write_error ==
  /\ pc = "insert"
  /\ Faulty
  /\ \E r \in RejectChoices(Range(docs) \ target_docs[coll_name]) :
       /\ Inserted(r, "bulk_write_error")
       /\ Written(InsertManyUnordered(target_docs[coll_name], docs, r))
  /\ BatchCounted
  /\ UNCHANGED <<env, sig, clients, collections, coll_i, total_docs, num_to_migrate,
                 batch, out, empty_seen, empty_done>>

\* A failed insert that leaves the collection without the finally block.
Insert_fail_Leaks ==
  /\ pc = "insert"
  /\ Faulty
  /\ \E o \in {"pymongo_error", "exception"} : Inserted({}, o)
  /\ pc' = "for"
  /\ UNCHANGED <<env, sig, tgt, clients, loop, batch, out, empty_seen, empty_done>>

\* Lines 157-162: any other exception of insert_many breaks the batch loop
\* (nothing of the batch is written).
Insert_fail ==
  /\ pc = "insert"
  /\ Faulty
  /\ \E o \in {"pymongo_error", "exception"} : Inserted({}, o)
  /\ pc' = "cursor_close"
  /\ UNCHANGED <<env, sig, tgt, clients, loop, batch, out, empty_seen, empty_done>>

\* Lines 168-175: cursor.close() in the finally block, then the overall
\* task advances.
CursorClose_ok ==
  /\ pc = "cursor_close"
  /\ UNCHANGED faults
  /\ cursor' = [cursor EXCEPT !.state = "closed"]
  /\ overall' = overall + 1
  /\ pc' = "for"
  /\ UNCHANGED <<env, sig, tgt, clients, loop, docs, fill_i, log, exit_status, hist>>

CursorClose_fail ==
  /\ pc = "cursor_close"
  /\ Faulty
  /\ cursor' = [cursor EXCEPT !.state = "close_failed"]
  /\ overall' = overall + 1
  /\ pc' = "for"
  /\ UNCHANGED <<env, sig, tgt, clients, loop, docs, fill_i, log, exit_status, hist>>

\* Lines 177-178.
Epilogue ==
  /\ pc = "epilogue"
  /\ UNCHANGED faults
  /\ log' = IF db_migrator_stop THEN log ELSE log \cup {"complete"}
  /\ pc' = "close_source"
  /\ UNCHANGED <<env, sig, tgt, clients, loop, batch, overall, exit_status, hist>>

(***************************************************************************)
(* Lines 182-185 and _safe_close (lines 32-37).                            *)
(***************************************************************************)
\* client.close() returns (or the client is None and nothing is called).
SafeClose_ok(client) == IF client = "open" THEN "closed" ELSE client

SafeCloseSource_ok ==
  /\ pc = "close_source"
  /\ UNCHANGED faults
  /\ source_client' = SafeClose_ok(source_client)
  /\ pc' = "close_target"
  /\ UNCHANGED <<env, sig, tgt, target_client, loop, batch, out, hist>>

\* An exception escaping the finally block: the command's handler of line
\* 52-54 (db_migration_service.py) logs it and exits with status 1.
SafeCloseSource_raises ==
  /\ pc = "close_source"
  /\ Faulty
  /\ source_client = "open"
  /\ source_client' = "close_failed"
  /\ log' = log \cup {"close_error", "migrate_raised"}
  /\ exit_status' = 1
  /\ pc' = "exited"
  /\ UNCHANGED <<env, sig, tgt, target_client, loop, batch, overall, hist>>

\* client.close() raises: _safe_close logs the error and returns.
SafeCloseSource_fail ==
  /\ pc = "close_source"
  /\ Faulty
  /\ source_client = "open"
  /\ source_client' = "close_failed"
  /\ log' = log \cup {"close_error"}
  /\ pc' = "close_target"
  /\ UNCHANGED <<env, sig, tgt, target_client, loop, batch, overall, exit_status, hist>>

SafeCloseTarget_ok ==
  /\ pc = "close_target"
  /\ UNCHANGED faults
  /\ target_client' = SafeClose_ok(target_client)
  /\ pc' = "returned"
  /\ UNCHANGED <<env, sig, tgt, source_client, loop, batch, out, hist>>

SafeCloseTarget_fail ==
  /\ pc = "close_target"
  /\ Faulty
  /\ target_client = "open"
  /\ target_client' = "close_failed"
  /\ log' = log \cup {"close_error"}
  /\ pc' = "returned"
  /\ UNCHANGED <<env, sig, tgt, source_client, loop, batch, overall, exit_status, hist>>

(***************************************************************************)
(* Specifications.                                                         *)
(***************************************************************************)
\* The steps of the process when no driver call fails.
Step ==
  \/ ImportDbMigrator
  \/ ImportAppEndpointsFetcher
  \/ Migrate
  \/ MigrateReturned
  \/ ConnectSource_ok
  \/ ConnectTarget_ok
  \/ Ping_ok
  \/ AccessDb_ok
  \/ ListCollections_ok
  \/ For
  \/ AccessColl_ok
  \/ Count_ok
  \/ EmptyList_ok
  \/ EmptyCreate_ok
  \/ Find_ok
  \/ Find_invalid
  \/ While
  \/ FillDone
  \/ Fetch_doc
  \/ Fetch_exhausted
  \/ Insert_ok
  \/ Insert_duplicates
  \/ CursorClose_ok
  \/ Epilogue
  \/ SafeCloseSource_ok
  \/ SafeCloseTarget_ok

\* The steps in which a driver call fails or answers unexpectedly.
Fault ==
  \/ ConnectSource_fail
  \/ ConnectTarget_fail
  \/ Ping_fail
  \/ AccessDb_fail
  \/ ListCollections_fail
  \/ AccessColl_fail
  \/ Count_stale
  \/ Count_fail
  \/ EmptyList_fail
  \/ EmptyCreate_fail
  \/ Find_fail
  \/ Fetch_fail
  \/ Insert_bulk_write_error
  \/ Insert_fail
  \/ CursorClose_fail
  \/ SafeCloseSource_fail
  \/ SafeCloseTarget_fail

Next == Step \/ Fault \/ Sigint

Spec == Init /\ [][Next]_vars

\* The process takes its next step: one thread runs the command, and every
\* driver call returns or raises.
FairSpec == Spec /\ WF_vars(Step)

\* Runs in which no driver call fails (an insert may still report the
\* duplicate keys the target holds) and no signal arrives, on the databases
\* of Spec and on the end-to-end scenario.
InitNoFault ==
  InitWith(Hosts, Percentages, BatchSizes \cup {30},
           SourceDBs \cup {ScenarioSource}, TargetDBs)

SpecNoFault == InitNoFault /\ [][Step]_vars

\* Second runs: the command run against a target that an earlier run left,
\* with no driver failure and no signal.
InitRerun == InitWith(Hosts, Percentages, BatchSizes, SourceDBs, RerunTargets)

SpecRerun == InitRerun /\ [][Step]_vars

\* The caller calls _migrate once more in the same process, with the same
\* arguments: lines 39-42 bind the locals anew; the module's _stop is
\* declared global at line 40 and not assigned. The histories start again
\* for the new run, whose target is what the run before left.
CallAgain ==
  /\ pc = "returned"
  /\ calls < MaxCalls
  /\ calls' = calls + 1
  /\ UNCHANGED faults
  /\ pc' = "connect_source"
  /\ source_client' = "none"
  /\ target_client' = "none"
  /\ collections' = <<>>
  /\ coll_i' = 0
  /\ total_docs' = 0
  /\ num_to_migrate' = 0
  /\ migrated_count' = 0
  /\ cursor' = NoCursor
  /\ docs' = <<>>
  /\ fill_i' = 0
  /\ overall' = 0
  /\ target_init' = [colls |-> target_colls, docs |-> target_docs]
  /\ ops' = {}
  /\ submitted' = [n \in CollNames |-> <<>>]
  /\ last_insert' = NoInsert
  /\ inserts_after_stop' = 0
  /\ dup_at' = [n \in CollNames |-> 0]
  /\ write_err_at' = [n \in CollNames |-> 0]
  /\ empty_seen' = {}
  /\ empty_done' = {}
  /\ interrupted' = FALSE
  /\ coll_at_stop' = 0
  /\ UNCHANGED <<host, percentage, batch_size, source, sigint_handler,
                 db_migrator_stop, app_endpoints_fetcher_stop, tgt, log,
                 exit_status>>

\* A process that may call _migrate again after it returned; no driver call
\* fails.
NextSecondCall == Step \/ Sigint \/ CallAgain

SpecSecondCall == Init /\ [][NextSecondCall]_vars

\* The planner alone: the run up to line 118 on a database of one collection,
\* for every percentage and every count up to MaxPlanN.
InitPlan ==
  InitWith({"service"}, 1..100, {1},
           {[names |-> <<"c1">>, count |-> Counts([c1 |-> a])] : a \in 0..MaxPlanN},
           {[colls |-> {}, docs |-> NoDocs]})

NextPlan ==
  \/ ImportDbMigrator
  \/ Migrate
  \/ ConnectSource_ok
  \/ ConnectTarget_ok
  \/ Ping_ok
  \/ AccessDb_ok
  \/ ListCollections_ok
  \/ For
  \/ AccessColl_ok
  \/ Count_ok

SpecPlan == InitPlan /\ [][NextPlan]_vars

(***************************************************************************)
(* The claims.                                                             *)
(***************************************************************************)
Finished == pc \in {"returned", "exited"}

\* C1: however _migrate ends, when it has returned no client that was opened
\* is left without close() having been called on it, also when closing the
\* source client failed.
C1_ClientsClosed ==
  Finished => source_client # "open" /\ target_client # "open"

C1_Witness ==
  pc = "returned" /\ source_client = "close_failed" /\ target_client = "closed"

\* C2: once db_migrator._stop is set during a run, at most one more
\* insert_many is issued, no collection after the current one has a batch
\* submitted, and the run ends with no client left open.
C2_StopObserved ==
  db_migrator_stop =>
    /\ inserts_after_stop <= 1
    /\ \A j \in (coll_at_stop + 1)..Len(collections) : submitted[collections[j]] = <<>>

C2_Cancellation ==
  /\ []C2_StopObserved
  /\ db_migrator_stop ~>
       (pc = "exited" /\ source_client # "open" /\ target_client # "open")

C2_Witness ==
  /\ pc = "exited"
  /\ db_migrator_stop
  /\ inserts_after_stop = 1
  /\ coll_at_stop = 1
  /\ Len(collections) = 2
  /\ source.count[collections[2]] > 0
  /\ Len(submitted[collections[1]]) < source.count[collections[1]]

\* C3: under app.py, an interrupt delivered while the migration runs sets
\* the flag the migration polls.
C3_InterruptCancels ==
  (host = "app" /\ interrupted) => db_migrator_stop

\* C4: with a batch size of at least 1, no failure and no cancellation, the
\* documents submitted for a collection number
\* min(num_to_migrate, documents the cursor yields).
C4_SumOfBatches ==
  ( /\ pc = "cursor_close"
    /\ batch_size >= 1
    /\ dup_at[coll_name] = 0 ) =>
    Len(submitted[coll_name]) = Min(num_to_migrate, source.count[coll_name])

\* C5: the end-to-end scenario (users: 100 documents, empty: 0, percentage
\* 50, batch size 30, empty target) ends with the first 50 documents of
\* users in the target, empty created without documents, and overall
\* progress 2 of 2.
C5_EndToEnd ==
  ( /\ pc = "exited"
    /\ source = ScenarioSource
    /\ target_init.colls = {}
    /\ percentage = 50
    /\ batch_size = 30 ) =>
    /\ target_docs["users"] = 1..50
    /\ "empty" \in target_colls
    /\ target_docs["empty"] = {}
    /\ overall = 2
    /\ Len(collections) = 2

\* C6: the planned count is the exact integer ceiling of
\* total_docs * percentage / 100.
C6_ExactCeiling ==
  pc = "find" => num_to_migrate = ExactCeil(total_docs, percentage)

\* C7: a collection whose estimated count is 0 gets no cursor, no read and
\* no write; once line 111 is passed it exists in the target, created only
\* if it was absent, with the documents it held before.
EmptyUntouched(c) ==
  /\ ops \cap {<<"find", c>>, <<"next", c>>, <<"insert_many", c>>} = {}
  /\ target_docs[c] = target_init.docs[c]

C7_EmptyCollection ==
  /\ \A c \in empty_seen : EmptyUntouched(c)
  /\ \A c \in empty_done :
       /\ c \in target_colls
       /\ <<"create_collection", c>> \in ops <=> c \notin target_init.colls

C7_Witness ==
  \E c \in empty_done :
    c \notin target_init.colls /\ c \in target_colls /\ percentage = 50 /\ pc = "exited"

\* C8: an insert_many that reports duplicate keys still writes every
\* document of the batch that was not refused, counts the batch and returns
\* to the loop condition; after it the batch loop is left only when the
\* target count is reached, nothing more could be read, the flag is set, or
\* a later insert failed.
InsertStep == pc = "insert" /\ pc' # "insert"

ReportsDuplicates ==
  /\ last_insert'.outcome = "bulk_write_error"
  /\ Range(docs) \cap target_docs[coll_name] # {}

C8_BatchSurvivesDuplicates ==
  (InsertStep /\ ReportsDuplicates) =>
    /\ (Range(docs) \ (target_docs[coll_name] \cup last_insert'.rejected))
         \subseteq target_docs'[coll_name]
    /\ pc' = "while"
    /\ migrated_count' = migrated_count + Len(docs)

C8_LoopGoesOn ==
  (pc = "cursor_close" /\ dup_at[coll_name] > 0
     /\ last_insert.outcome = "bulk_write_error") =>
    \/ migrated_count >= num_to_migrate
    \/ docs = <<>>
    \/ db_migrator_stop

C8_DuplicatesTolerated == [][C8_BatchSurvivesDuplicates]_vars /\ []C8_LoopGoesOn

C8_Witness ==
  \E c \in CollNames :
    /\ dup_at[c] > 0
    /\ Len(submitted[c]) > dup_at[c]
    /\ submitted[c][Len(submitted[c])] \in target_docs[c] \ target_init.docs[c]

\* C9: after a write of a batch failed for a reason other than a duplicate
\* key, no further batch of that collection is submitted.
C9_WriteFailureStopsCollection ==
  \A c \in CollNames : write_err_at[c] > 0 => Len(submitted[c]) = write_err_at[c]

\* C10: a request with a percentage outside 1..100 or a batch size below 1
\* opens no client and issues no operation.
C10_ValidatedFirst ==
  (~ValidRequest \/ batch_size < 1) =>
    source_client = "none" /\ target_client = "none" /\ ops = {}

\* C11: the overall counter never exceeds the number of collections, and a
\* run that listed a non-empty collection list and was not cancelled ends
\* with the counter equal to that number.
C11_OverallReachesTotal ==
  /\ overall <= Len(collections)
  /\ (pc = "exited" /\ collections # <<>> /\ ~db_migrator_stop) =>
       overall = Len(collections)

\* C12: once the collections are listed, no failure of an operation on one
\* collection keeps the run from starting every collection of the list: a
\* run that was not cancelled ends after the last collection was started.
C12_FailuresContained ==
  (pc = "exited" /\ collections # <<>> /\ ~db_migrator_stop) =>
    coll_i = Len(collections)

\* C13: when accessing a collection, estimating its count or creating its
\* cursor fails, nothing is written for that collection, the overall counter
\* advances by exactly one, and the for loop is resumed at the same position;
\* a collection left that way has no document submitted.
CollectionStepFailed ==
  \/ pc = "access_coll" /\ pc' \notin {"access_coll", "count"}
  \/ pc = "count" /\ pc' \notin {"count", "find", "empty_list"}
  \/ pc = "find" /\ pc' \notin {"find", "while"}

C13_SkipsCollection ==
  CollectionStepFailed =>
    /\ pc' = "for"
    /\ overall' = overall + 1
    /\ coll_i' = coll_i
    /\ UNCHANGED <<tgt, submitted>>
    /\ submitted[coll_name] = <<>>
    /\ <<"insert_many", coll_name>> \notin ops'

C13_CollectionErrors == [][C13_SkipsCollection]_vars

C13_Witness ==
  /\ pc = "exited"
  /\ Len(collections) = 2
  /\ source.count[collections[1]] > 0
  /\ <<"next", collections[1]>> \notin ops
  /\ <<"list_collection_names", "target">> \notin ops
  /\ target_docs[collections[1]] = target_init.docs[collections[1]]
  /\ submitted[collections[2]] # <<>>
  /\ overall = 2

\* C14: when opening a client, a ping or the listing of the source's
\* collections fails, the run goes to its cleanup: only connection, ping and
\* listing operations were issued, and the target is as it was before the run.
ConnectionOps ==
  {<<"connect", "source">>, <<"connect", "target">>, <<"ping", "source">>,
   <<"ping", "target">>, <<"list_collection_names", "source">>}

ConnectionOrListingFailed ==
  \/ "conn_error" \in log
  \/ "list_error" \in log
  \/ "failed" \in log /\ <<"list_collection_names", "source">> \notin ops

C14_AbortsBeforeAnyCopy ==
  ConnectionOrListingFailed =>
    /\ pc \in {"close_source", "close_target", "returned", "exited"}
    /\ ops \subseteq ConnectionOps
    /\ target_colls = target_init.colls
    /\ target_docs = target_init.docs

C14_Witness ==
  /\ pc = "exited"
  /\ "list_error" \in log
  /\ Len(source.names) = 2
  /\ source.count[source.names[1]] > 0
  /\ source_client = "closed"
  /\ target_client = "closed"

\* C15: no exception leaves _migrate: a run whose request passed validation
\* returns to the command, which reports success, with no client left open;
\* the TypeError of line 110 is logged by the handler of line 180.
C15_NoExceptionEscapes ==
  /\ "migrate_raised" \notin log
  /\ (pc = "exited" /\ ValidRequest) =>
       /\ exit_status = 0
       /\ "completed_successfully" \in log
       /\ source_client # "open"
       /\ target_client # "open"
  /\ (Finished /\ empty_seen \ empty_done # {}) => "failed" \in log

C15_Witness ==
  /\ pc = "exited"
  /\ exit_status = 0
  /\ empty_seen \ empty_done # {}
  /\ "failed" \in log
  /\ source_client = "closed"
  /\ target_client = "closed"

\* C16: a run against a target that an earlier run filled appends and never
\* replaces: the documents the target held stay; when none of the documents
\* submitted for a collection is already in the target, the collection grows
\* by the number migrated; when all of them are already there, they are
\* rejected and the collection is as it was.
C16_AppendsOnRerun ==
  /\ \A c \in CollNames : target_init.docs[c] \subseteq target_docs[c]
  /\ pc = "cursor_close" =>
       /\ Range(submitted[coll_name]) \cap target_init.docs[coll_name] = {} =>
            Cardinality(target_docs[coll_name]) =
              Cardinality(target_init.docs[coll_name]) + migrated_count
       /\ Range(submitted[coll_name]) \subseteq target_init.docs[coll_name] =>
            target_docs[coll_name] = target_init.docs[coll_name]

C16_Witness ==
  /\ pc = "exited"
  /\ target_init.docs["c1"] = {OtherDoc}
  /\ Len(submitted["c1"]) = 2
  /\ target_docs["c1"] = {OtherDoc} \cup Range(submitted["c1"])

\* C17: a source database without collections ends the run as a no-op
\* success: the warning is logged, only the clients' connection, ping and
\* listing operations were issued, the target is as before, no client is
\* left open, the command reports success, and (when no close failed and no
\* signal arrived) nothing else is logged.
C17_NoCollectionsNoOp ==
  ( /\ pc = "exited"
    /\ source.names = <<>>
    /\ <<"list_collection_names", "source">> \in ops
    /\ "list_error" \notin log ) =>
    /\ "no_collections" \in log
    /\ ops = ConnectionOps
    /\ target_colls = target_init.colls
    /\ target_docs = target_init.docs
    /\ source_client # "open"
    /\ target_client # "open"
    /\ exit_status = 0
    /\ (faults = 0 /\ ~interrupted) =>
         log = {"no_collections", "completed_successfully"}

C17_Witness ==
  /\ pc = "exited"
  /\ source.names = <<>>
  /\ "no_collections" \in log
  /\ target_init.colls # {}
  /\ target_colls = target_init.colls
  /\ source_client = "closed"
  /\ target_client = "closed"
  /\ exit_status = 0

\* C18: the cursor of a collection is closed before the for loop goes on: it
\* is open only inside the batch loop and its finally block, a new cursor is
\* opened only when the one before was closed, and none is open when the run
\* ends.
C18_OpenOnlyInLoop ==
  cursor.state = "open" => pc \in {"while", "fill", "insert", "cursor_close"}

C18_OpensAfterRelease ==
  (pc = "find" /\ pc' = "while") => cursor.state # "open"

C18_CursorReleased == []C18_OpenOnlyInLoop /\ [][C18_OpensAfterRelease]_vars

C18_Witness ==
  /\ pc = "access_coll"
  /\ coll_i = 2
  /\ cursor.state = "closed"
  /\ last_insert.outcome \in {"pymongo_error", "exception"}
  /\ write_err_at[collections[1]] > 0

\* C19: a batch whose insert_many returned or raised BulkWriteError advances
\* migrated_count by the batch's length, a batch whose insert_many raised
\* anything else does not advance it; so when the batch loop is left,
\* migrated_count is the number of documents submitted in counted batches,
\* whatever number of them was stored.
InsertCounted == last_insert'.outcome \in {"ok", "bulk_write_error"}

C19_CountsBatch ==
  InsertStep =>
    migrated_count' = migrated_count + (IF InsertCounted THEN Len(docs) ELSE 0)

\* The documents of the collection's last batch when its insert_many raised
\* something else than BulkWriteError: submitted and not counted.
Uncounted ==
  IF /\ submitted[coll_name] # <<>>
     /\ last_insert.outcome \in {"pymongo_error", "exception"}
  THEN Len(docs)
  ELSE 0

C19_CountIsSubmitted ==
  pc = "cursor_close" =>
    migrated_count = Len(submitted[coll_name]) - Uncounted

C19_CountsAttempts == [][C19_CountsBatch]_vars /\ []C19_CountIsSubmitted

C19_Witness ==
  /\ pc = "cursor_close"
  /\ dup_at[coll_name] > 0
  /\ migrated_count = 2
  /\ Cardinality(target_docs[coll_name] \ target_init.docs[coll_name]) = 1

\* C20: a batch passed to insert_many holds at least 1 and at most
\* batch_size documents; it holds fewer than batch_size only when the cursor
\* was exhausted or the fill was left early by a failed fetch; an empty batch
\* is not submitted and ends the batch loop.
C20_BatchBounds ==
  pc = "insert" =>
    /\ 1 <= Len(docs)
    /\ Len(docs) <= batch_size
    /\ Len(docs) < batch_size =>
         \/ cursor.pos >= source.count[coll_name]
         \/ fill_i < batch_size

C20_EmptyBatchEnds ==
  (pc = "fill" /\ pc' # "fill" /\ docs = <<>>) =>
    pc' = "cursor_close" /\ UNCHANGED <<tgt, submitted>>

C20_BatchSizes == []C20_BatchBounds /\ [][C20_EmptyBatchEnds]_vars

C20_Witness ==
  /\ pc = "insert"
  /\ batch_size = 2
  /\ Len(docs) = 1
  /\ fill_i = batch_size
  /\ cursor.pos >= source.count[coll_name]

\* C21: the documents submitted for a collection, in submission order, are
\* the first documents the cursor yields (the source's documents are 1..count
\* in cursor order): none skipped, reordered or repeated; documents are
\* submitted only for the collection the for loop is at, and no operation has
\* been issued on a collection later in the list.
C21_Prefix ==
  \A c \in CollNames :
    /\ Len(submitted[c]) <= source.count[c]
    /\ \A i \in 1..Len(submitted[c]) : submitted[c][i] = i

C21_NoLaterCollection ==
  \A j \in (coll_i + 1)..Len(collections) :
    /\ submitted[collections[j]] = <<>>
    /\ \A o \in ops : o[2] # collections[j]

C21_OnlyCurrent ==
  \A c \in CollNames :
    submitted'[c] # submitted[c] => (coll_i >= 1 /\ c = coll_name /\ coll_i' = coll_i)

C21_CursorOrder ==
  /\ []C21_Prefix
  /\ []C21_NoLaterCollection
  /\ [][C21_OnlyCurrent]_vars

C21_Witness ==
  /\ pc = "exited"
  /\ Len(collections) = 2
  /\ batch_size = 1
  /\ submitted[collections[1]] = <<1, 2>>
  /\ submitted[collections[2]] = <<1>>

\* C22: db_migrator._stop, once set, stays set while the run is in progress,
\* and every call of _migrate starts with it cleared.
CallStep == pc \in {"cli", "returned"} /\ pc' = "connect_source"

C22_StaysSet == (Running /\ db_migrator_stop) => db_migrator_stop'

C22_StartsCleared == CallStep => ~db_migrator_stop'

C22_FlagPerRun == [][C22_StaysSet /\ C22_StartsCleared]_vars

\* C23: a run that was cancelled while a collection was being processed
\* (the flag was set before line 177, so the run's 'Migration complete' is
\* not logged), and in which no driver call failed, is not reported by the
\* command as completed successfully.
C23_CancelledNotSuccess ==
  ( /\ pc = "exited"
    /\ db_migrator_stop
    /\ coll_at_stop >= 1
    /\ "complete" \notin log
    /\ faults = 0 ) =>
    "completed_successfully" \notin log

\* C24: the command reports success and exits with status 0 only for a run
\* without connection error, listing error or top-level exception; after one
\* of those it exits with another status.
RunFailed == log \cap {"conn_error", "list_error", "failed"} # {}

C24_FailureReported ==
  (pc = "exited" /\ RunFailed) =>
    /\ "completed_successfully" \notin log
    /\ exit_status # 0

\* C25: every run ends, whatever the batch size and the cursor do: a batch
\* is started only while migrated_count is below num_to_migrate, and an
\* iteration of the batch loop that returns to the loop condition has
\* increased migrated_count, so a collection's loop is left after at most
\* num_to_migrate iterations.
C25_StartsBelowTarget ==
  pc \in {"fill", "insert"} => migrated_count < num_to_migrate

C25_IterationProgress ==
  (pc \in {"fill", "insert"} /\ pc' = "while") => migrated_count' > migrated_count

C25_Terminates ==
  /\ []C25_StartsBelowTarget
  /\ [][C25_IterationProgress]_vars
  /\ <>Finished

C25_Witness ==
  /\ pc = "exited"
  /\ batch_size = 0
  /\ Len(collections) = 2
  /\ source.count[collections[1]] > 0
  /\ <<"find", collections[1]>> \in ops
  /\ <<"find", collections[2]>> \in ops
  /\ overall = 2

\* C26: inside a collection's batch loop the documents submitted for it
\* number at most num_to_migrate + batch_size - 1; while a batch is filled
\* migrated_count is below num_to_migrate and does not change, so the limit
\* check of line 132 is false throughout the fill.
C26_SubmittedBound ==
  pc \in {"while", "fill", "insert", "cursor_close"} =>
    Len(submitted[coll_name]) <= num_to_migrate + batch_size - 1

C26_LimitCheckIdle ==
  pc = "fill" => (migrated_count < num_to_migrate /\ ~BatchLimitReached)

C26_CountFixedInFill ==
  (pc = "fill" /\ pc' \in {"fill", "insert"}) => migrated_count' = migrated_count

C26_Overshoot ==
  /\ []C26_SubmittedBound
  /\ []C26_LimitCheckIdle
  /\ [][C26_CountFixedInFill]_vars

C26_Witness ==
  /\ pc = "cursor_close"
  /\ batch_size = 2
  /\ num_to_migrate = 1
  /\ Len(submitted[coll_name]) = num_to_migrate + batch_size - 1
  /\ faults = 0

====
